---- MODULE Spec2Model ----
(***************************************************************************)
(* Model of backend/core/ai_assistant.py (EnglishWritingAssistant).        *)
(*                                                                         *)
(* A Python str is modelled as a sequence of one-character strings, so     *)
(* that strip, startswith, find, slicing, split and replace are computed   *)
(* character by character as CPython computes them.                        *)
(***************************************************************************)
EXTENDS Integers, Sequences, FiniteSets, TLC

(***************************************************************************)
(* Bounds of the model.                                                    *)
(***************************************************************************)
\* number of free lines of an LLM feedback reply after its fixed opening
MaxBodyLines == 2

\* number of lines of a free-form LLM vocabulary reply
MaxVocabLines == 3

\* number of records of a numbered LLM vocabulary reply
MaxRecords == 10

\* requests the server receives in one run
MaxRequests == 2

(***************************************************************************)
(* Python str primitives.                                                  *)
(***************************************************************************)
Whitespace == {" ", "\t", "\n", "\r"}

Digits == {"0", "1", "2", "3", "4", "5", "6", "7", "8", "9"}

\* c.isdigit() for a one-character string
isdigit(c) == c \in Digits

\* index of the first character that is not whitespace (Len(s) + 1 if none)
FirstNonWs(s) ==
    CHOOSE i \in 1..(Len(s) + 1) :
        /\ i = Len(s) + 1 \/ s[i] \notin Whitespace
        /\ \A j \in 1..(i - 1) : s[j] \in Whitespace

\* index of the last character that is not whitespace (0 if none)
LastNonWs(s) ==
    CHOOSE j \in 0..Len(s) :
        /\ j = 0 \/ s[j] \notin Whitespace
        /\ \A k \in (j + 1)..Len(s) : s[k] \in Whitespace

\* s.strip()
Strip(s) ==
    LET a == FirstNonWs(s)
        b == LastNonWs(s)
    IN  IF a > b THEN <<>> ELSE SubSeq(s, a, b)

\* s.startswith(p)
StartsWith(s, p) == Len(s) >= Len(p) /\ SubSeq(s, 1, Len(p)) = p

\* s[n:]
SliceFrom(s, n) == IF n >= Len(s) THEN <<>> ELSE SubSeq(s, n + 1, Len(s))

\* s[:n]
SliceTo(s, n) == IF n >= Len(s) THEN s ELSE SubSeq(s, 1, n)

\* s.find(p): 0-based index of the first occurrence, -1 when there is none
Find(s, p) ==
    LET at == {i \in 1..(Len(s) - Len(p) + 1) : SubSeq(s, i, i + Len(p) - 1) = p}
    IN  IF at = {} THEN -1
        ELSE (CHOOSE i \in at : \A j \in at : i <= j) - 1

\* s.replace('\r\n', '\n'): every "\r" directly before a "\n" is dropped
ReplaceCRLF(s) ==
    LET dropped == {i \in 1..(Len(s) - 1) : s[i] = "\r" /\ s[i + 1] = "\n"}
        before(i) == Cardinality({r \in dropped : r < i})
        source(k) ==
            CHOOSE i \in k..(k + Cardinality(dropped)) :
                i \notin dropped /\ i - before(i) = k
    IN  [k \in 1..(Len(s) - Cardinality(dropped)) |-> s[source(k)]]

\* s.split('\n'): always at least one element
SplitLines(s) ==
    LET nl == {i \in 1..Len(s) : s[i] = "\n"}
        n == Cardinality(nl)
        kth(k) == CHOOSE i \in nl : Cardinality({j \in nl : j <= i}) = k
        first(k) == IF k = 1 THEN 1 ELSE kth(k - 1) + 1
        last(k) == IF k = n + 1 THEN Len(s) ELSE kth(k) - 1
    IN  [k \in 1..(n + 1) |->
            IF first(k) > last(k) THEN <<>> ELSE SubSeq(s, first(k), last(k))]

\* the lines of a reply: raw.replace('\r\n', '\n').split('\n')
LinesOf(raw) == SplitLines(ReplaceCRLF(raw))

RECURSIVE JoinLines(_)
\* '\n'.join(ls): the text an LLM sends for the lines ls
JoinLines(ls) ==
    IF ls = <<>> THEN <<>>
    ELSE IF Len(ls) = 1 THEN ls[1]
    ELSE ls[1] \o <<"\n">> \o JoinLines(Tail(ls))

Range(s) == {s[i] : i \in DOMAIN s}

\* all sequences over S of length at most n
RECURSIVE SeqsUpTo(_, _)
SeqsUpTo(S, n) ==
    IF n = 0 THEN {<<>>}
    ELSE LET shorter == SeqsUpTo(S, n - 1)
         IN  shorter \cup {Append(q, x) : q \in shorter, x \in S}

(***************************************************************************)
(* Literals of get_feedback.                                               *)
(***************************************************************************)
START_MARKER == <<"-","-","-","S","T","A","R","T","_","R","E","S","P","O","N","S","E","-","-","-">>

END_MARKER == <<"-","-","-","E","N","D","_","R","E","S","P","O","N","S","E","-","-","-">>

CORRECTED_TEXT_PREFIX == <<"C","O","R","R","E","C","T","E","D","_","T","E","X","T",":">>

CHANGES_LIST_PREFIX == <<"C","H","A","N","G","E","S","_","L","I","S","T",":">>

NO_CHANGES == <<"N","o"," ","c","h","a","n","g","e","s"," ","n","e","e","d","e","d",".">>

PARSE_ERROR_MESSAGE == <<"E","r","r","o","r",":"," ","C","o","u","l","d"," ","n","o","t"," ","p","a","r","s","e"," ","s","t","r","u","c","t","u","r","e","d"," ","f","e","e","d","b","a","c","k","."," ","R","a","w"," ","L","L","M"," ","o","u","t","p","u","t"," ","i","s"," ","p","r","o","v","i","d","e","d",".">>

RAW_OUTPUT_LABEL == <<"R","a","w"," ","O","u","t","p","u","t"," ","(","t","r","u","n","c","a","t","e","d",")",":"," ">>

ELLIPSIS == <<".",".",".">>

\* raw_response_content[:150]
RawExcerpt_untruncated(raw) == raw

RawExcerpt(raw) == SliceTo(raw, 150)

(***************************************************************************)
(* Replies of the LLM to a feedback prompt.                                *)
(***************************************************************************)
LineCorrected == <<"C","O","R","R","E","C","T","E","D","_","T","E","X","T",":"," ","I"," ","a","m"," ","h","a","p","p","y",".">>

LineCorrectedEmpty == <<"C","O","R","R","E","C","T","E","D","_","T","E","X","T",":">>

LineChanges == <<"C","H","A","N","G","E","S","_","L","I","S","T",":">>

LineBullet == <<"-"," ","F","i","x","e","d"," ","t","e","n","s","e",".">>

LineSentinel == <<"-"," ","N","o"," ","c","h","a","n","g","e","s"," ","n","e","e","d","e","d",".">>

LineStar == <<" ","*"," "," ","A","d","d","e","d"," ","a"," ","c","o","m","m","a","."," ">>

LineNumbered == <<"2","."," ","S","p","l","i","t"," ","t","h","e"," ","s","e","c","o","n","d"," ","s","e","n","t","e","n","c","e"," ","i","n"," ","t","w","o",","," ","b","e","c","a","u","s","e"," ","i","t"," ","w","a","s"," ","f","a","r"," ","t","o","o"," ","l","o","n","g"," ","f","o","r"," ","a"," ","r","e","a","d","e","r"," ","t","o"," ","f","o","l","l","o","w"," ","w","i","t","h","o","u","t"," ","g","o","i","n","g"," ","b","a","c","k"," ","t","o"," ","i","t","s"," ","s","t","a","r","t",".">>

LineTwoDigits == <<"1","2","."," ","x">>

LineText == <<"a","n","d"," ","g","l","a","d","\r">>

LineOneChar == <<"7">>

LineEmpty == <<>>

FeedbackLines ==
    { START_MARKER, END_MARKER, LineCorrected, LineCorrectedEmpty, LineChanges,
      LineBullet, LineSentinel, LineStar, LineNumbered, LineTwoDigits,
      LineText, LineOneChar, LineEmpty }

FeedbackOpenings ==
    { <<>>,
      <<START_MARKER>>,
      <<START_MARKER, LineCorrected>>,
      <<START_MARKER, LineCorrected, LineChanges>> }

FeedbackClosings == { <<>>, <<END_MARKER>> }

\* the texts the LLM may answer a feedback prompt with
FeedbackReplies ==
    { JoinLines(o \o b \o c) :
        o \in FeedbackOpenings,
        b \in SeqsUpTo(FeedbackLines, MaxBodyLines),
        c \in FeedbackClosings }

(***************************************************************************)
(* State.                                                                  *)
(***************************************************************************)
VARIABLES
    pc,                    \* position in the running method
    failure,               \* where a raised error originated ("none" if none)
    raw_response_content,  \* the stripped reply of the LLM
    lines,                 \* the reply split into lines
    idx,                   \* index of the line the for loop is at
    state,                 \* parser state of get_feedback
    corrected_text,
    changes_list,
    parsing_successful,
    result,                \* the value get_feedback returns
    vocabulary_list_parsed,
    current_vocab,
    vocabulary,            \* the value generate_vocabulary returns
    method,                \* the method whose prompt was built
    level,                 \* its level argument
    context,               \* its context (or topic) argument
    prompt,                \* the parts the prompt is rendered from
    generated_task,        \* the value generate_daily_task returns
    llm_calls,             \* outbound calls made to the LLM client
    invocations,           \* calls of the assistant's methods
    ai_assistant_instance, \* main.py: the global assistant
    endpoint,              \* main.py: the endpoint of the request in hand
    request_body,          \* main.py: the JSON body of the request
    status_code,           \* main.py: status of the response (0: none yet)
    response_body,         \* main.py: the body of the response
    requests               \* main.py: requests received

vars ==
    << pc, failure, raw_response_content, lines, idx, state, corrected_text,
       changes_list, parsing_successful, result, vocabulary_list_parsed,
       current_vocab, vocabulary, method, level, context, prompt,
       generated_task, llm_calls, invocations, ai_assistant_instance,
       endpoint, request_body, status_code, response_body, requests >>

task_vars == << generated_task >>

call_vars == << llm_calls, invocations >>

api_vars ==
    << ai_assistant_instance, endpoint, request_body, status_code,
       response_body, requests >>

NoBody == [kind |-> "none"]

\* no request is in hand
ApiIdle ==
    /\ endpoint = "none"
    /\ request_body = NoBody
    /\ status_code = 0
    /\ response_body = NoBody
    /\ requests = 0

\* a method of a constructed assistant was entered, directly
DirectCall ==
    /\ ai_assistant_instance = "assistant"
    /\ ApiIdle
    /\ generated_task = <<>>
    /\ llm_calls = 0
    /\ invocations = 1

prompt_vars == << method, level, context, prompt >>

\* an Optional[str] argument: None, or a str
None == [given |-> FALSE, text |-> <<>>]

Some(s) == [given |-> TRUE, text |-> s]

\* the truth value of an Optional[str]: None and "" are false
Truthy(v) == v.given /\ v.text # <<>>

NoPrompt == [method |-> "none"]

PromptIdle ==
    /\ method = "none"
    /\ level = None
    /\ context = None
    /\ prompt = NoPrompt

feedback_vars ==
    << state, corrected_text, changes_list, parsing_successful, result >>

vocab_vars == << vocabulary_list_parsed, current_vocab, vocabulary >>

\* a dict is a function from the keys it holds; {} holds none
EmptyDict == [k \in {} |-> <<>>]

NoResult == [corrected_text |-> <<>>, changes_list |-> <<>>]

Init ==
    /\ pc = "call"
    /\ failure = "none"
    /\ raw_response_content = <<>>
    /\ lines = <<>>
    /\ idx = 0
    /\ state = "INITIAL"
    /\ corrected_text = <<>>
    /\ changes_list = <<>>
    /\ parsing_successful = FALSE
    /\ result = NoResult
    /\ vocabulary_list_parsed = <<>>
    /\ current_vocab = EmptyDict
    /\ vocabulary = <<>>
    /\ PromptIdle
    /\ DirectCall

(***************************************************************************)
(* get_feedback: the outbound call (lines 96-129).                         *)
(***************************************************************************)
\* the call raises: both except clauses re-raise RuntimeError (181-186)
LLMCallFails_retried ==
    /\ pc = "call"
    /\ llm_calls' = llm_calls + 1
    /\ UNCHANGED << pc, failure, raw_response_content, lines, idx, state,
                    corrected_text, changes_list, parsing_successful, result >>
    /\ UNCHANGED << vocab_vars, prompt_vars, task_vars, api_vars, invocations >>

LLMCallFails ==
    /\ pc = "call"
    /\ llm_calls' = llm_calls + 1
    /\ pc' = "failed"
    /\ failure' = "llm_call"
    /\ UNCHANGED << raw_response_content, lines, idx, state, corrected_text,
                    changes_list, parsing_successful, result >>
    /\ UNCHANGED << vocab_vars, prompt_vars, task_vars, api_vars, invocations >>

\* the call returns text; lines 107/117 strip it, 125-131 set up the parse
LLMReturns(replies) ==
    /\ pc = "call"
    /\ llm_calls' = llm_calls + 1
    /\ \E text \in replies :
         /\ raw_response_content' = Strip(text)
         /\ lines' = LinesOf(Strip(text))
    /\ corrected_text' = <<>>
    /\ changes_list' = <<>>
    /\ parsing_successful' = FALSE
    /\ state' = "INITIAL"
    /\ idx' = 1
    /\ pc' = "loop"
    /\ UNCHANGED << failure, result >>
    /\ UNCHANGED << vocab_vars, prompt_vars, task_vars, api_vars, invocations >>

LLMCallReturns == LLMReturns(FeedbackReplies)

(***************************************************************************)
(* get_feedback: one iteration of the for loop (lines 133-164).            *)
(***************************************************************************)
stripped_line == Strip(lines[idx])

\* the for loop moves to the next line, or ends when there is none
Continue ==
    /\ idx' = idx + 1
    /\ pc' = IF idx < Len(lines) THEN "loop" ELSE "post"

\* line 141: the condition under which the end marker means success
EndMarkerSucceeds_any == TRUE

EndMarkerSucceeds ==
    \/ state = "IN_CHANGES_LIST"
    \/ state = "IN_CORRECTED_TEXT"
    \/ corrected_text # <<>>

\* lines 136-138
StartMarkerLine_restarts ==
    /\ pc = "loop"
    /\ stripped_line = START_MARKER
    /\ state' = "IN_RESPONSE_BLOCK"
    /\ corrected_text' = <<>>
    /\ changes_list' = <<>>
    /\ Continue
    /\ UNCHANGED << failure, raw_response_content, lines, parsing_successful, result >>
    /\ UNCHANGED << vocab_vars, prompt_vars, task_vars, api_vars, call_vars >>

StartMarkerLine ==
    /\ pc = "loop"
    /\ stripped_line = START_MARKER
    /\ state' = "IN_RESPONSE_BLOCK"
    /\ Continue
    /\ UNCHANGED << failure, raw_response_content, lines, corrected_text,
                    changes_list, parsing_successful, result >>
    /\ UNCHANGED << vocab_vars, prompt_vars, task_vars, api_vars, call_vars >>

\* lines 140-143: break leaves the loop whatever lines follow
EndMarkerLine ==
    /\ pc = "loop"
    /\ stripped_line # START_MARKER
    /\ stripped_line = END_MARKER
    /\ parsing_successful' = IF EndMarkerSucceeds THEN TRUE ELSE parsing_successful
    /\ pc' = "post"
    /\ UNCHANGED << failure, raw_response_content, lines, idx, state,
                    corrected_text, changes_list, result >>
    /\ UNCHANGED << vocab_vars, prompt_vars, task_vars, api_vars, call_vars >>

NotMarker == stripped_line # START_MARKER /\ stripped_line # END_MARKER

\* line 147: stripped_line[len("CORRECTED_TEXT:"):].strip()
CorrectedTextOf(s) == Strip(SliceFrom(s, Len(CORRECTED_TEXT_PREFIX)))

\* lines 145-150
InResponseBlockLine ==
    /\ pc = "loop"
    /\ NotMarker
    /\ state = "IN_RESPONSE_BLOCK"
    /\ IF StartsWith(stripped_line, CORRECTED_TEXT_PREFIX)
       THEN /\ corrected_text' = CorrectedTextOf(stripped_line)
            /\ state' = "IN_CORRECTED_TEXT"
       ELSE IF StartsWith(stripped_line, CHANGES_LIST_PREFIX)
       THEN /\ state' = "IN_CHANGES_LIST"
            /\ UNCHANGED corrected_text
       ELSE UNCHANGED << state, corrected_text >>
    /\ Continue
    /\ UNCHANGED << failure, raw_response_content, lines, changes_list,
                    parsing_successful, result >>
    /\ UNCHANGED << vocab_vars, prompt_vars, task_vars, api_vars, call_vars >>

\* line 156: corrected_text += (" " if corrected_text else "") + stripped_line
AppendCorrected(ct, s) == ct \o (IF ct # <<>> THEN <<" ">> ELSE <<>>) \o s

\* lines 152-156
InCorrectedTextLine ==
    /\ pc = "loop"
    /\ NotMarker
    /\ state = "IN_CORRECTED_TEXT"
    /\ IF StartsWith(stripped_line, CHANGES_LIST_PREFIX)
       THEN /\ state' = "IN_CHANGES_LIST"
            /\ UNCHANGED corrected_text
       ELSE /\ corrected_text' = AppendCorrected(corrected_text, stripped_line)
            /\ UNCHANGED state
    /\ Continue
    /\ UNCHANGED << failure, raw_response_content, lines, changes_list,
                    parsing_successful, result >>
    /\ UNCHANGED << vocab_vars, prompt_vars, task_vars, api_vars, call_vars >>

\* line 159
IsBullet(s) == StartsWith(s, <<"-", " ">>) \/ StartsWith(s, <<"*", " ">>)

\* line 160: stripped_line[2:].strip()
BulletEntry_untrimmed(s) == SliceFrom(s, 2)

BulletEntry(s) == Strip(SliceFrom(s, 2))

\* line 161: the truthiness test that guards stripped_line[0]
FirstCharGuard_missing(s) == TRUE

FirstCharGuard(s) == s # <<>>

\* line 161: stripped_line[0] raises IndexError on an empty string
FirstCharRaises(s) == Len(s) = 0

\* line 161: stripped_line[0].isdigit() and stripped_line.find('. ') == 1
IsNumbered(s) == isdigit(s[1]) /\ Find(s, <<".", " ">>) = 1

\* line 162: stripped_line[stripped_line.find('. ') + 2:].strip()
NumberedEntry(s) == Strip(SliceFrom(s, Find(s, <<".", " ">>) + 2))

\* line 161 raises for s: the guard lets stripped_line[0] be evaluated on ""
NumberedTestRaises(s) == ~IsBullet(s) /\ FirstCharGuard(s) /\ FirstCharRaises(s)

\* lines 159-164: changes_list after a line s that raises nothing
ChangesAfterLine(changes, s) ==
    IF IsBullet(s) THEN Append(changes, BulletEntry(s))
    ELSE IF FirstCharGuard(s) /\ IsNumbered(s) THEN Append(changes, NumberedEntry(s))
    ELSE IF s # <<>> THEN Append(changes, s)
    ELSE changes

\* lines 158-164; an IndexError is caught at 184 and re-raised (186)
InChangesListLine ==
    /\ pc = "loop"
    /\ NotMarker
    /\ state = "IN_CHANGES_LIST"
    /\ IF NumberedTestRaises(stripped_line)
       THEN /\ pc' = "failed"
            /\ failure' = "parsing"
            /\ UNCHANGED << changes_list, idx >>
       ELSE /\ changes_list' = ChangesAfterLine(changes_list, stripped_line)
            /\ Continue
            /\ UNCHANGED failure
    /\ UNCHANGED << raw_response_content, lines, state, corrected_text,
                    parsing_successful, result >>
    /\ UNCHANGED << vocab_vars, prompt_vars, task_vars, api_vars, call_vars >>

\* no branch of 145-164 is taken in state INITIAL
InitialLine_lenient ==
    /\ pc = "loop"
    /\ NotMarker
    /\ state = "INITIAL"
    /\ IF StartsWith(stripped_line, CORRECTED_TEXT_PREFIX)
       THEN /\ corrected_text' = CorrectedTextOf(stripped_line)
            /\ state' = "IN_CORRECTED_TEXT"
       ELSE UNCHANGED << state, corrected_text >>
    /\ Continue
    /\ UNCHANGED << failure, raw_response_content, lines, changes_list,
                    parsing_successful, result >>
    /\ UNCHANGED << vocab_vars, prompt_vars, task_vars, api_vars, call_vars >>

InitialLine ==
    /\ pc = "loop"
    /\ NotMarker
    /\ state = "INITIAL"
    /\ Continue
    /\ UNCHANGED << failure, raw_response_content, lines, state, corrected_text,
                    changes_list, parsing_successful, result >>
    /\ UNCHANGED << vocab_vars, prompt_vars, task_vars, api_vars, call_vars >>

(***************************************************************************)
(* get_feedback: after the loop (lines 166-179).                           *)
(***************************************************************************)
\* line 166
FallbackFires_both(ps, ct) == ~ps /\ ct = <<>>

FallbackFires(ps, ct) == ~ps \/ ct = <<>>

\* line 169
FallbackChanges(raw) ==
    << PARSE_ERROR_MESSAGE, RAW_OUTPUT_LABEL \o RawExcerpt(raw) \o ELLIPSIS >>

\* lines 171-174
SentinelCollapse_dominates(changes) ==
    IF NO_CHANGES \in Range(changes) /\ Len(changes) > 1
    THEN <<NO_CHANGES>>
    ELSE changes

SentinelCollapse(changes) ==
    IF NO_CHANGES \in Range(changes) /\ Len(changes) > 1
    THEN LET kept == SelectSeq(changes, LAMBDA c : c # NO_CHANGES)
         IN  IF kept = <<>> THEN <<NO_CHANGES>> ELSE kept
    ELSE changes

Finish ==
    /\ pc = "post"
    /\ LET fallback == FallbackFires(parsing_successful, corrected_text)
           text == IF fallback THEN raw_response_content ELSE corrected_text
           changes == SentinelCollapse(
                          IF fallback THEN FallbackChanges(raw_response_content)
                          ELSE changes_list)
       IN  /\ corrected_text' = text
           /\ changes_list' = changes
           /\ result' = [corrected_text |-> Strip(text), changes_list |-> changes]
    /\ pc' = "done"
    /\ UNCHANGED << failure, raw_response_content, lines, idx, state,
                    parsing_successful >>
    /\ UNCHANGED << vocab_vars, prompt_vars, task_vars, api_vars, call_vars >>

Next ==
    \/ LLMCallFails
    \/ LLMCallReturns
    \/ StartMarkerLine
    \/ EndMarkerLine
    \/ InResponseBlockLine
    \/ InCorrectedTextLine
    \/ InChangesListLine
    \/ InitialLine
    \/ Finish

Spec == Init /\ [][Next]_vars

(***************************************************************************)
(* generate_vocabulary: literals and helpers (lines 367-399).              *)
(***************************************************************************)
WORD_PREFIX == <<"W","o","r","d",":">>

DEFINITION_PREFIX == <<"D","e","f","i","n","i","t","i","o","n",":">>

EXAMPLE_PREFIX == <<"E","x","a","m","p","l","e",":">>

DOT_SPACE == <<".", " ">>

Fields == {"word", "definition", "example"}

\* line 379
FreshVocab == [word |-> <<>>, definition |-> <<>>, example |-> <<>>]

\* d[k] = v
DictSet(d, k, v) == [f \in DOMAIN d \cup {k} |-> IF f = k THEN v ELSE d[f]]

\* line 376: tuple(str(i) + "." for i in range(1, 10))
RecordDigits == Digits \ {"0"}

\* line 376: line_stripped.startswith(("1.", ..., "9."))
StartsRecord_withSpace(s) ==
    Len(s) >= 3 /\ s[1] \in RecordDigits /\ s[2] = "." /\ s[3] = " "

StartsRecord(s) == Len(s) >= 2 /\ s[1] \in RecordDigits /\ s[2] = "."

\* line 381: line_stripped.split(". ", 1)
SplitOnce(s, sep) ==
    LET at == Find(s, sep)
    IN  IF at = -1 THEN <<s>>
        ELSE <<SliceTo(s, at), SliceFrom(s, at + Len(sep))>>

\* lines 383, 388, 390, 392: s[len(prefix):].strip()
FieldText_untrimmed(s, prefix) == SliceFrom(s, Len(prefix))

FieldText(s, prefix) == Strip(SliceFrom(s, Len(prefix)))

\* lines 379-385: the record a numbered line opens
OpenedVocab(s) ==
    LET parts == SplitOnce(s, DOT_SPACE)
    IN  IF Len(parts) > 1 /\ StartsWith(parts[2], WORD_PREFIX)
        THEN DictSet(FreshVocab, "word", FieldText(parts[2], WORD_PREFIX))
        ELSE IF Len(parts) > 1
        THEN DictSet(FreshVocab, "word", Strip(parts[2]))
        ELSE FreshVocab

\* lines 377-378 and 394-395: if current_vocab: append it
Flushed(list, vocab) == IF DOMAIN vocab # {} THEN Append(list, vocab) ELSE list

\* v.get('word') is truthy
HasWord(v) == "word" \in DOMAIN v /\ v["word"] # <<>>

\* line 398
ValidationFails_onlyEmpty(list) == list = <<>>

ValidationFails_anyMissing(list) ==
    list = <<>> \/ \E i \in DOMAIN list : ~HasWord(list[i])

ValidationFails(list) == list = <<>> \/ ~\E i \in DOMAIN list : HasWord(list[i])

(***************************************************************************)
(* Replies of the LLM to a vocabulary prompt.                              *)
(***************************************************************************)
VLineHeading == <<"H","e","r","e"," ","a","r","e"," ","f","i","v","e"," ","w","o","r","d","s",":">>

VLineNumberedWord == <<"1","."," ","W","o","r","d",":"," ","A","p","t">>

VLineNumberOnly == <<"2",".">>

VLineNumberedText == <<"3","."," ","B","r","i","s","k">>

VLineZero == <<"0","."," ","W","o","r","d",":"," ","N","i","l">>

VLineDecimal == <<"1",".","5"," ","m","i","l","l","i","o","n"," ","p","e","o","p","l","e"," ","c","a","m","e",".">>

VLineWord == <<" ","W","o","r","d",":"," ","K","e","e","n"," ">>

VLineWordEmpty == <<"W","o","r","d",":">>

VLineDefinition == <<" "," "," ","D","e","f","i","n","i","t","i","o","n",":"," ","F","i","t","."," "," ">>

VLineExample == <<" "," "," ","E","x","a","m","p","l","e",":"," ","A","n"," ","a","p","t"," ","p","u","p","i","l",".","\r">>

VocabLines ==
    { VLineHeading, VLineNumberedWord, VLineNumberOnly, VLineNumberedText,
      VLineZero, VLineDecimal, VLineWord, VLineWordEmpty, VLineDefinition,
      VLineExample, LineEmpty }

DigitChars == <<"0", "1", "2", "3", "4", "5", "6", "7", "8", "9">>

\* str(n) for 0 <= n < 100
DecimalOf(n) ==
    IF n < 10 THEN <<DigitChars[n + 1]>>
    ELSE <<DigitChars[(n \div 10) + 1], DigitChars[(n % 10) + 1]>>

RecordStyles == {"plain", "padded", "wordless", "mixed"}

\* the three lines of record r of a numbered reply
RecordLines(r, style) ==
    IF style = "plain" \/ (style = "mixed" /\ r % 2 = 1)
    THEN << DecimalOf(r) \o <<"."," ","W","o","r","d",":"," ","A","p","t">>, <<"D","e","f","i","n","i","t","i","o","n",":"," ","F","i","t",".">>, <<"E","x","a","m","p","l","e",":"," ","A","n"," ","a","p","t"," ","p","u","p","i","l",".">> >>
    ELSE IF style = "padded"
    THEN << DecimalOf(r) \o <<"."," ","W","o","r","d",":"," "," ","K","e","e","n"," "," ">>, VLineDefinition, VLineExample >>
    ELSE << DecimalOf(r) \o <<"."," ","W","o","r","d",":">>, <<"D","e","f","i","n","i","t","i","o","n",":"," ","F","i","t",".">>, <<"E","x","a","m","p","l","e",":"," ","A","n"," ","a","p","t"," ","p","u","p","i","l",".">> >>

RECURSIVE NumberedReply(_, _)
\* the lines of a reply of n records numbered 1..n
NumberedReply(n, style) ==
    IF n = 0 THEN <<>>
    ELSE NumberedReply(n - 1, style) \o RecordLines(n, style)

\* the texts the LLM may answer a vocabulary prompt with
VocabReplies ==
    { JoinLines(ls) : ls \in SeqsUpTo(VocabLines, MaxVocabLines) }
    \cup
    { JoinLines(NumberedReply(n, style)) : n \in 1..MaxRecords, style \in RecordStyles }

(***************************************************************************)
(* generate_vocabulary (lines 338-408).                                    *)
(***************************************************************************)
InitVocab ==
    /\ pc = "call"
    /\ failure = "none"
    /\ raw_response_content = <<>>
    /\ lines = <<>>
    /\ idx = 0
    /\ state = "INITIAL"
    /\ corrected_text = <<>>
    /\ changes_list = <<>>
    /\ parsing_successful = FALSE
    /\ result = NoResult
    /\ vocabulary_list_parsed = <<>>
    /\ current_vocab = EmptyDict
    /\ vocabulary = <<>>
    /\ PromptIdle
    /\ DirectCall

\* the call raises: both except clauses re-raise RuntimeError (403-408)
VocabCallFails ==
    /\ pc = "call"
    /\ llm_calls' = llm_calls + 1
    /\ pc' = "failed"
    /\ failure' = "llm_call"
    /\ UNCHANGED << raw_response_content, lines, idx, feedback_vars, vocab_vars >>
    /\ UNCHANGED << prompt_vars, task_vars, api_vars, invocations >>

\* the call returns text; lines 349/358 strip it, 367-369 set up the scan
VocabReturns(replies) ==
    /\ pc = "call"
    /\ llm_calls' = llm_calls + 1
    /\ \E text \in replies :
         /\ raw_response_content' = Strip(text)
         /\ lines' = LinesOf(Strip(text))
    /\ vocabulary_list_parsed' = <<>>
    /\ current_vocab' = EmptyDict
    /\ idx' = 1
    /\ pc' = "loop"
    /\ UNCHANGED << failure, feedback_vars, vocabulary >>
    /\ UNCHANGED << prompt_vars, task_vars, api_vars, invocations >>

VocabCallReturns == VocabReturns(VocabReplies)

\* line 372
line_stripped == Strip(lines[idx])

\* lines 373-374
VocabBlankLine ==
    /\ pc = "loop"
    /\ line_stripped = <<>>
    /\ Continue
    /\ UNCHANGED << failure, raw_response_content, lines, feedback_vars, vocab_vars >>
    /\ UNCHANGED << prompt_vars, task_vars, api_vars, call_vars >>

\* lines 376-385
VocabNumberedLine ==
    /\ pc = "loop"
    /\ line_stripped # <<>>
    /\ StartsRecord(line_stripped)
    /\ vocabulary_list_parsed' = Flushed(vocabulary_list_parsed, current_vocab)
    /\ current_vocab' = OpenedVocab(line_stripped)
    /\ Continue
    /\ UNCHANGED << failure, raw_response_content, lines, feedback_vars, vocabulary >>
    /\ UNCHANGED << prompt_vars, task_vars, api_vars, call_vars >>

\* the field a line that opens no record sets, "" when it sets none (387-392)
FieldOf(s) ==
    IF StartsWith(s, WORD_PREFIX) THEN "word"
    ELSE IF StartsWith(s, DEFINITION_PREFIX) THEN "definition"
    ELSE IF StartsWith(s, EXAMPLE_PREFIX) THEN "example"
    ELSE ""

\* lines 387-388
VocabWordLine ==
    /\ pc = "loop"
    /\ line_stripped # <<>>
    /\ ~StartsRecord(line_stripped)
    /\ FieldOf(line_stripped) = "word"
    /\ current_vocab' = DictSet(current_vocab, "word", FieldText(line_stripped, WORD_PREFIX))
    /\ Continue
    /\ UNCHANGED << failure, raw_response_content, lines, feedback_vars,
                    vocabulary_list_parsed, vocabulary >>
    /\ UNCHANGED << prompt_vars, task_vars, api_vars, call_vars >>

\* lines 389-390
VocabDefinitionLine ==
    /\ pc = "loop"
    /\ line_stripped # <<>>
    /\ ~StartsRecord(line_stripped)
    /\ FieldOf(line_stripped) = "definition"
    /\ current_vocab' =
           DictSet(current_vocab, "definition", FieldText(line_stripped, DEFINITION_PREFIX))
    /\ Continue
    /\ UNCHANGED << failure, raw_response_content, lines, feedback_vars,
                    vocabulary_list_parsed, vocabulary >>
    /\ UNCHANGED << prompt_vars, task_vars, api_vars, call_vars >>

\* lines 391-392
VocabExampleLine ==
    /\ pc = "loop"
    /\ line_stripped # <<>>
    /\ ~StartsRecord(line_stripped)
    /\ FieldOf(line_stripped) = "example"
    /\ current_vocab' =
           DictSet(current_vocab, "example", FieldText(line_stripped, EXAMPLE_PREFIX))
    /\ Continue
    /\ UNCHANGED << failure, raw_response_content, lines, feedback_vars,
                    vocabulary_list_parsed, vocabulary >>
    /\ UNCHANGED << prompt_vars, task_vars, api_vars, call_vars >>

\* no branch of 376-392 is taken
VocabOtherLine ==
    /\ pc = "loop"
    /\ line_stripped # <<>>
    /\ ~StartsRecord(line_stripped)
    /\ FieldOf(line_stripped) = ""
    /\ Continue
    /\ UNCHANGED << failure, raw_response_content, lines, feedback_vars, vocab_vars >>
    /\ UNCHANGED << prompt_vars, task_vars, api_vars, call_vars >>

\* lines 394-401; the RuntimeError of 399 is caught at 406 and re-raised (408)
VocabFinish ==
    /\ pc = "post"
    /\ vocabulary_list_parsed' = Flushed(vocabulary_list_parsed, current_vocab)
    /\ IF ValidationFails(vocabulary_list_parsed')
       THEN /\ pc' = "failed"
            /\ failure' = "parse"
            /\ UNCHANGED vocabulary
       ELSE /\ pc' = "done"
            /\ vocabulary' = vocabulary_list_parsed'
            /\ UNCHANGED failure
    /\ UNCHANGED << raw_response_content, lines, idx, feedback_vars, current_vocab >>
    /\ UNCHANGED << prompt_vars, task_vars, api_vars, call_vars >>

NextVocab ==
    \/ VocabCallFails
    \/ VocabCallReturns
    \/ VocabBlankLine
    \/ VocabNumberedLine
    \/ VocabWordLine
    \/ VocabDefinitionLine
    \/ VocabExampleLine
    \/ VocabOtherLine
    \/ VocabFinish

SpecVocab == InitVocab /\ [][NextVocab]_vars

(***************************************************************************)
(* The prompts (lines 52-94, 194-264, 314-336).                            *)
(***************************************************************************)
LowerLetters ==
    << "a", "b", "c", "d", "e", "f", "g", "h", "i", "j", "k", "l", "m",
       "n", "o", "p", "q", "r", "s", "t", "u", "v", "w", "x", "y", "z" >>

UpperLetters ==
    << "A", "B", "C", "D", "E", "F", "G", "H", "I", "J", "K", "L", "M",
       "N", "O", "P", "Q", "R", "S", "T", "U", "V", "W", "X", "Y", "Z" >>

UpperChar(c) ==
    IF \E i \in DOMAIN LowerLetters : LowerLetters[i] = c
    THEN UpperLetters[CHOOSE i \in DOMAIN LowerLetters : LowerLetters[i] = c]
    ELSE c

\* s.upper()
Upper(s) == [i \in DOMAIN s |-> UpperChar(s[i])]

LEVEL_B1 == <<"B","1">>

LEVEL_B2 == <<"B","2">>

LEVEL_C1 == <<"C","1">>

\* lines 52-65: system_message and level_focus of get_feedback
FeedbackLevelParts(lv) ==
    IF Truthy(lv) /\ Upper(lv.text) = LEVEL_B1
    THEN [ system_message |-> "You are an English writing assistant specializing in B1-level intermediate proficiency.",
           level_focus |-> "Focus on fundamental grammar, spelling, basic sentence structure, and clear communication. Provide simple, direct explanations for changes." ]
    ELSE IF Truthy(lv) /\ Upper(lv.text) = LEVEL_B2
    THEN [ system_message |-> "You are an English writing assistant specializing in B2-level upper-intermediate proficiency.",
           level_focus |-> "Focus on improving sentence fluency, vocabulary choice, common grammatical errors, and overall coherence. Explanations should be concise and helpful." ]
    ELSE IF Truthy(lv) /\ Upper(lv.text) = LEVEL_C1
    THEN [ system_message |-> "You are an English writing assistant specializing in C1-level advanced professional proficiency.",
           level_focus |-> "Focus on refining style, advanced grammar, idiomatic expressions, conciseness, and natural flow. Provide sophisticated and insightful explanations." ]
    ELSE IF Truthy(lv)
    THEN [ system_message |-> "You are an English writing assistant.",
           level_focus |-> "Maintain a general C1-level focus." ]
    ELSE [ system_message |-> "You are an English writing assistant.",
           level_focus |-> "" ]

\* lines 68-70
FeedbackContextInstruction(ctx) ==
    IF Truthy(ctx)
    THEN <<" ","T","h","e"," ","u","s","e","r"," ","i","s"," ","w","r","i","t","i","n","g"," ","a","b","o","u","t"," ","t","h","e"," ","c","o","n","t","e","x","t"," ","o","f",":"," ","'">> \o ctx.text
           \o <<"'","."," ","A","d","a","p","t"," ","y","o","u","r"," ","f","e","e","d","b","a","c","k"," ","t","o","n","e"," ","a","n","d"," ","s","u","g","g","e","s","t","i","o","n","s"," ","a","c","c","o","r","d","i","n","g","l","y",".">>
    ELSE <<>>

\* lines 72-94: the parts the f-string interpolates
FeedbackPrompt(text, lv, ctx) ==
    [ method |-> "get_feedback",
      system_message |-> FeedbackLevelParts(lv).system_message,
      level_focus |-> FeedbackLevelParts(lv).level_focus,
      context_instruction |-> FeedbackContextInstruction(ctx),
      text |-> text ]

\* lines 194-205: len(task_types)
NumTaskTypes == 10

\* lines 207-239: len(example_prompts[key])
NumExamples(key) == IF key = LEVEL_B1 THEN 5 ELSE 10

\* line 244
DailyTaskLevelKey_B2(lv) ==
    IF Truthy(lv) /\ Upper(lv.text) \in {LEVEL_B1, LEVEL_B2, LEVEL_C1} THEN Upper(lv.text) ELSE LEVEL_B2

DailyTaskLevelKey(lv) ==
    IF Truthy(lv) /\ Upper(lv.text) \in {LEVEL_B1, LEVEL_B2, LEVEL_C1} THEN Upper(lv.text) ELSE LEVEL_C1

\* lines 248-250
DailyTaskContextInstruction(ctx) ==
    IF Truthy(ctx)
    THEN <<" ","T","h","e"," ","u","s","e","r"," ","s","p","e","c","i","f","i","c","a","l","l","y"," ","w","a","n","t","s"," ","a"," ","t","a","s","k"," ","r","e","l","a","t","e","d"," ","t","o",":"," ","'">> \o ctx.text \o <<"'",".">>
    ELSE <<>>

\* lines 252-264: the parts the f-string interpolates; task_type and example
\* are the indices random.choice picked (242, 245)
DailyTaskPrompt(lv, ctx, task_type, example) ==
    [ method |-> "generate_daily_task",
      level_key |-> DailyTaskLevelKey(lv),
      selected_task_type |-> task_type,
      selected_example |-> <<DailyTaskLevelKey(lv), example>>,
      context_instruction |-> DailyTaskContextInstruction(ctx) ]

\* line 314
VocabularyLevelKey(lv) ==
    IF Truthy(lv) /\ Upper(lv.text) \in {LEVEL_B1, LEVEL_B2, LEVEL_C1} THEN Upper(lv.text) ELSE LEVEL_B2

\* line 315
TopicInstruction(topic) ==
    IF Truthy(topic) THEN <<" ","o","n"," ","t","h","e"," ","t","o","p","i","c"," ","o","f"," ","'">> \o topic.text \o <<"'">> ELSE <<>>

\* lines 317-336: the parts the f-strings interpolate
VocabularyPrompt(lv, topic) ==
    [ method |-> "generate_vocabulary",
      level_key |-> VocabularyLevelKey(lv),
      topic_instruction |-> TopicInstruction(topic) ]

\* the level arguments tried
Levels ==
    { None, Some(<<>>), Some(LEVEL_B1), Some(<<"b","1">>), Some(LEVEL_B2), Some(<<"b","2">>), Some(LEVEL_C1),
      Some(<<"c","1">>), Some(<<"A","2">>), Some(<<"c","2">>), Some(<<"C","1"," ">>) }

\* the context and topic arguments tried
Contexts == { None, Some(<<>>), Some(<<"e","m","a","i","l">>), Some(<<"r","e","p","o","r","t">>) }

\* the texts tried
Texts == { <<"I"," ","g","o","e","s"," ","h","o","m","e",".">>, <<"W","e"," ","w","a","s"," ","l","a","t","e",".">> }

PromptParked ==
    /\ pc = "idle"
    /\ failure = "none"
    /\ raw_response_content = <<>>
    /\ lines = <<>>
    /\ idx = 0
    /\ state = "INITIAL"
    /\ corrected_text = <<>>
    /\ changes_list = <<>>
    /\ parsing_successful = FALSE
    /\ result = NoResult
    /\ vocabulary_list_parsed = <<>>
    /\ current_vocab = EmptyDict
    /\ vocabulary = <<>>

InitPrompt == PromptParked /\ PromptIdle /\ DirectCall

\* get_feedback, lines 52-94
BuildFeedbackPrompt ==
    /\ pc = "idle"
    /\ \E text \in Texts, lv \in Levels, ctx \in Contexts :
         /\ level' = lv
         /\ context' = ctx
         /\ prompt' = FeedbackPrompt(text, lv, ctx)
    /\ method' = "get_feedback"
    /\ pc' = "built"
    /\ UNCHANGED << failure, raw_response_content, lines, idx, feedback_vars, vocab_vars >>
    /\ UNCHANGED << task_vars, api_vars, call_vars >>

\* generate_daily_task, lines 194-264
BuildDailyTaskPrompt ==
    /\ pc = "idle"
    /\ \E lv \in Levels, ctx \in Contexts, task_type \in 1..NumTaskTypes :
         \E example \in 1..NumExamples(DailyTaskLevelKey(lv)) :
             /\ level' = lv
             /\ context' = ctx
             /\ prompt' = DailyTaskPrompt(lv, ctx, task_type, example)
    /\ method' = "generate_daily_task"
    /\ pc' = "built"
    /\ UNCHANGED << failure, raw_response_content, lines, idx, feedback_vars, vocab_vars >>
    /\ UNCHANGED << task_vars, api_vars, call_vars >>

\* generate_vocabulary, lines 314-336
BuildVocabularyPrompt ==
    /\ pc = "idle"
    /\ \E lv \in Levels, topic \in Contexts :
         /\ level' = lv
         /\ context' = topic
         /\ prompt' = VocabularyPrompt(lv, topic)
    /\ method' = "generate_vocabulary"
    /\ pc' = "built"
    /\ UNCHANGED << failure, raw_response_content, lines, idx, feedback_vars, vocab_vars >>
    /\ UNCHANGED << task_vars, api_vars, call_vars >>

NextPrompt ==
    \/ BuildFeedbackPrompt
    \/ BuildDailyTaskPrompt
    \/ BuildVocabularyPrompt

SpecPrompt == InitPrompt /\ [][NextPrompt]_vars

(***************************************************************************)
(* generate_daily_task: the outbound call (lines 266-306).                 *)
(***************************************************************************)
\* s.endswith(p)
EndsWith(s, p) == Len(s) >= Len(p) /\ SubSeq(s, Len(s) - Len(p) + 1, Len(s)) = p

\* s[1:-1]
Inner(s) == SliceFrom(SliceTo(s, Len(s) - 1), 1)

\* lines 291-294: a pair of enclosing quotes is removed, " first, then '
Unquote(s) ==
    LET a == IF StartsWith(s, <<"\"">>) /\ EndsWith(s, <<"\"">>) THEN Strip(Inner(s)) ELSE s
    IN  IF StartsWith(a, <<"'">>) /\ EndsWith(a, <<"'">>) THEN Strip(Inner(a)) ELSE a

\* replies of the LLM to a task prompt
TaskReplies ==
    { <<"W","r","i","t","e"," ","a"," ","m","e","m","o"," ","t","o"," ","y","o","u","r"," ","t","e","a","m",".">>, <<"\"","W","r","i","t","e"," ","a"," ","m","e","m","o"," ","t","o"," ","y","o","u","r"," ","t","e","a","m",".","\""," ">>,
      <<"'"," ","D","e","s","c","r","i","b","e"," ","y","o","u","r"," ","c","o","m","m","u","t","e","."," ","'">>, <<"\"","'","S","u","m","m","a","r","i","s","e"," ","a"," ","t","a","l","k",".","'","\"">>, <<"\"">>, <<>> }

\* the call raises: both except clauses re-raise RuntimeError (301-306)
DailyTaskCallFails ==
    /\ pc = "task_call"
    /\ llm_calls' = llm_calls + 1
    /\ pc' = "failed"
    /\ failure' = "llm_call"
    /\ UNCHANGED << raw_response_content, lines, idx, feedback_vars, vocab_vars >>
    /\ UNCHANGED << prompt_vars, task_vars, api_vars, invocations >>

\* the call returns text; lines 277/286 strip it, 291-299 unquote and return
DailyTaskCallReturns ==
    /\ pc = "task_call"
    /\ llm_calls' = llm_calls + 1
    /\ \E text \in TaskReplies : generated_task' = Unquote(Strip(text))
    /\ pc' = "done"
    /\ UNCHANGED << failure, raw_response_content, lines, idx, feedback_vars, vocab_vars >>
    /\ UNCHANGED << prompt_vars, api_vars, invocations >>

(***************************************************************************)
(* backend/app/main.py: startup and the two endpoints.                     *)
(***************************************************************************)
\* the bodies POSTed to /api/v1/feedback: FeedbackRequest has the one field
\* text; a body without it does not validate
FeedbackBodies ==
    { [kind |-> "json", text |-> t] :
        t \in { None, Some(<<>>), Some(<<" "," ">>), Some(<<" ","\t","\n">>),
                Some(<<"I"," ","g","o","e","s"," ","h","o","m","e",".">>), Some(<<" ","W","e"," ","w","a","s"," ","l","a","t","e","."," ">>) } }

\* replies of the LLM to the feedback prompt of a request
ApiFeedbackReplies ==
    { JoinLines(<<START_MARKER, LineCorrected, LineChanges, LineBullet, END_MARKER>>),
      JoinLines(<<START_MARKER, LineCorrected, LineText>>),
      LineText,
      <<>> }

\* the locals of the assistant's methods, before a method is entered
NoCall ==
    /\ failure = "none"
    /\ raw_response_content = <<>>
    /\ lines = <<>>
    /\ idx = 0
    /\ state = "INITIAL"
    /\ corrected_text = <<>>
    /\ changes_list = <<>>
    /\ parsing_successful = FALSE
    /\ result = NoResult
    /\ vocabulary_list_parsed = <<>>
    /\ current_vocab = EmptyDict
    /\ vocabulary = <<>>
    /\ generated_task = <<>>
    /\ PromptIdle

\* line 54: the module is loaded, startup_event has not run
InitApi ==
    /\ pc = "startup"
    /\ ai_assistant_instance = "None"
    /\ NoCall
    /\ ApiIdle
    /\ llm_calls = 0
    /\ invocations = 0

method_vars ==
    << failure, raw_response_content, lines, idx, feedback_vars, vocab_vars,
       prompt_vars, task_vars >>

\* startup_event, lines 67-75: the constructor returns
StartupSucceeds ==
    /\ pc = "startup"
    /\ ai_assistant_instance' = "assistant"
    /\ pc' = "idle"
    /\ UNCHANGED << method_vars, call_vars, endpoint, request_body,
                    status_code, response_body, requests >>

\* startup_event, lines 76-84: the constructor raises
StartupFails ==
    /\ pc = "startup"
    /\ ai_assistant_instance' = "None"
    /\ pc' = "idle"
    /\ UNCHANGED << method_vars, call_vars, endpoint, request_body,
                    status_code, response_body, requests >>

\* lines 100-105, 118: a body without text is refused before the handler runs;
\* lines 125-140: the checks of the handler, in their order (0: none failed)
FeedbackPrecheck_blankFirst(body, instance) ==
    IF ~body.text.given THEN 422
    ELSE IF Strip(body.text.text) = <<>> THEN 400
    ELSE IF instance = "None" THEN 503
    ELSE 0

FeedbackPrecheck(body, instance) ==
    IF ~body.text.given THEN 422
    ELSE IF instance = "None" THEN 503
    ELSE IF Strip(body.text.text) = <<>> THEN 400
    ELSE 0

ErrorBody == [kind |-> "detail"]

\* get_writing_feedback, lines 118-144: up to the call of get_feedback
PostFeedback ==
    /\ pc = "idle"
    /\ requests < MaxRequests
    /\ requests' = requests + 1
    /\ endpoint' = "feedback"
    /\ \E body \in FeedbackBodies :
         /\ request_body' = body
         /\ LET refused == FeedbackPrecheck(body, ai_assistant_instance)
            IN  IF refused # 0
                THEN /\ status_code' = refused
                     /\ response_body' = ErrorBody
                     /\ pc' = "responded"
                     /\ UNCHANGED << prompt_vars, invocations >>
                ELSE /\ method' = "get_feedback"
                     /\ level' = None
                     /\ context' = None
                     /\ prompt' = FeedbackPrompt(Strip(body.text.text), None, None)
                     /\ invocations' = invocations + 1
                     /\ pc' = "call"
                     /\ UNCHANGED << status_code, response_body >>
    /\ UNCHANGED << failure, raw_response_content, lines, idx, feedback_vars,
                    vocab_vars, task_vars, llm_calls, ai_assistant_instance >>

\* get_writing_feedback, lines 144-146: get_feedback returned
FeedbackReturns ==
    /\ pc = "done"
    /\ endpoint = "feedback"
    /\ status_code' = 200
    /\ response_body' = [kind |-> "feedback",
                         corrected_text |-> result.corrected_text,
                         changes_list |-> result.changes_list]
    /\ pc' = "responded"
    /\ UNCHANGED << method_vars, call_vars, ai_assistant_instance, endpoint,
                    request_body, requests >>

\* get_writing_feedback, lines 147-160: get_feedback raised
FeedbackRaises ==
    /\ pc = "failed"
    /\ endpoint = "feedback"
    /\ status_code' = 500
    /\ response_body' = ErrorBody
    /\ pc' = "responded"
    /\ UNCHANGED << method_vars, call_vars, ai_assistant_instance, endpoint,
                    request_body, requests >>

\* get_daily_writing_task, lines 164-179: up to the call of generate_daily_task
GetDailyTask ==
    /\ pc = "idle"
    /\ requests < MaxRequests
    /\ requests' = requests + 1
    /\ endpoint' = "daily-task"
    /\ request_body' = NoBody
    /\ IF ai_assistant_instance = "None"
       THEN /\ status_code' = 503
            /\ response_body' = ErrorBody
            /\ pc' = "responded"
            /\ UNCHANGED << prompt_vars, invocations >>
       ELSE /\ method' = "generate_daily_task"
            /\ level' = None
            /\ context' = None
            /\ \E task_type \in 1..NumTaskTypes :
                 \E example \in 1..NumExamples(DailyTaskLevelKey(None)) :
                     prompt' = DailyTaskPrompt(None, None, task_type, example)
            /\ invocations' = invocations + 1
            /\ pc' = "task_call"
            /\ UNCHANGED << status_code, response_body >>
    /\ UNCHANGED << failure, raw_response_content, lines, idx, feedback_vars,
                    vocab_vars, task_vars, llm_calls, ai_assistant_instance >>

\* get_daily_writing_task, lines 179-181: generate_daily_task returned
DailyTaskReturns ==
    /\ pc = "done"
    /\ endpoint = "daily-task"
    /\ status_code' = 200
    /\ response_body' = [kind |-> "task", task |-> generated_task]
    /\ pc' = "responded"
    /\ UNCHANGED << method_vars, call_vars, ai_assistant_instance, endpoint,
                    request_body, requests >>

\* get_daily_writing_task, lines 182-193: generate_daily_task raised
DailyTaskRaises ==
    /\ pc = "failed"
    /\ endpoint = "daily-task"
    /\ status_code' = 500
    /\ response_body' = ErrorBody
    /\ pc' = "responded"
    /\ UNCHANGED << method_vars, call_vars, ai_assistant_instance, endpoint,
                    request_body, requests >>

\* the response is sent; the server waits for the next request
AwaitRequest ==
    /\ pc = "responded"
    /\ pc' = "idle"
    /\ failure' = "none"
    /\ raw_response_content' = <<>>
    /\ lines' = <<>>
    /\ idx' = 0
    /\ state' = "INITIAL"
    /\ corrected_text' = <<>>
    /\ changes_list' = <<>>
    /\ parsing_successful' = FALSE
    /\ result' = NoResult
    /\ vocabulary_list_parsed' = <<>>
    /\ current_vocab' = EmptyDict
    /\ vocabulary' = <<>>
    /\ generated_task' = <<>>
    /\ method' = "none"
    /\ level' = None
    /\ context' = None
    /\ prompt' = NoPrompt
    /\ endpoint' = "none"
    /\ request_body' = NoBody
    /\ status_code' = 0
    /\ response_body' = NoBody
    /\ UNCHANGED << call_vars, ai_assistant_instance, requests >>

NextApi ==
    \/ StartupSucceeds
    \/ StartupFails
    \/ PostFeedback
    \/ LLMCallFails
    \/ LLMReturns(ApiFeedbackReplies)
    \/ StartMarkerLine
    \/ EndMarkerLine
    \/ InResponseBlockLine
    \/ InCorrectedTextLine
    \/ InChangesListLine
    \/ InitialLine
    \/ Finish
    \/ FeedbackReturns
    \/ FeedbackRaises
    \/ GetDailyTask
    \/ DailyTaskCallFails
    \/ DailyTaskCallReturns
    \/ DailyTaskReturns
    \/ DailyTaskRaises
    \/ AwaitRequest

SpecApi == InitApi /\ [][NextApi]_vars

(***************************************************************************)
(* The three methods called one after another on one assistant, as the     *)
(* self-test block does (lines 411-440).                                   *)
(***************************************************************************)
\* replies of the LLM to the vocabulary prompt of a call
CallVocabReplies ==
    { JoinLines(NumberedReply(2, "plain")), VLineHeading, <<>> }

\* lines 414: the assistant is constructed, no method was called yet
InitCalls ==
    /\ pc = "idle"
    /\ ai_assistant_instance = "assistant"
    /\ NoCall
    /\ ApiIdle
    /\ llm_calls = 0
    /\ invocations = 0

\* get_feedback is called: lines 47-94 build the prompt
InvokeFeedback ==
    /\ pc = "idle"
    /\ invocations < MaxRequests
    /\ invocations' = invocations + 1
    /\ method' = "get_feedback"
    /\ \E lv \in {None, Some(LEVEL_B1), Some(<<"c","1">>)}, ctx \in {None, Some(<<"e","m","a","i","l">>)} :
         /\ level' = lv
         /\ context' = ctx
         /\ prompt' = FeedbackPrompt(<<"I"," ","g","o","e","s"," ","h","o","m","e",".">>, lv, ctx)
    /\ pc' = "call"
    /\ UNCHANGED << failure, raw_response_content, lines, idx, feedback_vars,
                    vocab_vars, task_vars, api_vars, llm_calls >>

\* generate_daily_task is called: lines 190-264 build the prompt
InvokeDailyTask ==
    /\ pc = "idle"
    /\ invocations < MaxRequests
    /\ invocations' = invocations + 1
    /\ method' = "generate_daily_task"
    /\ \E lv \in {None, Some(LEVEL_B1)}, task_type \in 1..NumTaskTypes :
         \E example \in 1..NumExamples(DailyTaskLevelKey(lv)) :
             /\ level' = lv
             /\ context' = None
             /\ prompt' = DailyTaskPrompt(lv, None, task_type, example)
    /\ pc' = "task_call"
    /\ UNCHANGED << failure, raw_response_content, lines, idx, feedback_vars,
                    vocab_vars, task_vars, api_vars, llm_calls >>

\* generate_vocabulary is called: lines 309-336 build the prompt
InvokeVocabulary ==
    /\ pc = "idle"
    /\ invocations < MaxRequests
    /\ invocations' = invocations + 1
    /\ method' = "generate_vocabulary"
    /\ \E lv \in {None, Some(LEVEL_C1)}, topic \in {None, Some(<<"r","e","p","o","r","t">>)} :
         /\ level' = lv
         /\ context' = topic
         /\ prompt' = VocabularyPrompt(lv, topic)
    /\ pc' = "call"
    /\ UNCHANGED << failure, raw_response_content, lines, idx, feedback_vars,
                    vocab_vars, task_vars, api_vars, llm_calls >>

\* a step of get_feedback (lines 96-186)
FeedbackStep ==
    /\ method = "get_feedback"
    /\ \/ LLMCallFails
       \/ LLMReturns(ApiFeedbackReplies)
       \/ StartMarkerLine
       \/ EndMarkerLine
       \/ InResponseBlockLine
       \/ InCorrectedTextLine
       \/ InChangesListLine
       \/ InitialLine
       \/ Finish

\* a step of generate_vocabulary (lines 338-408)
VocabularyStep ==
    /\ method = "generate_vocabulary"
    /\ \/ VocabCallFails
       \/ VocabReturns(CallVocabReplies)
       \/ VocabBlankLine
       \/ VocabNumberedLine
       \/ VocabWordLine
       \/ VocabDefinitionLine
       \/ VocabExampleLine
       \/ VocabOtherLine
       \/ VocabFinish

\* the method returned or raised RuntimeError; the caller goes on
MethodEnds ==
    /\ pc \in {"done", "failed"}
    /\ pc' = "idle"
    /\ failure' = "none"
    /\ raw_response_content' = <<>>
    /\ lines' = <<>>
    /\ idx' = 0
    /\ state' = "INITIAL"
    /\ corrected_text' = <<>>
    /\ changes_list' = <<>>
    /\ parsing_successful' = FALSE
    /\ result' = NoResult
    /\ vocabulary_list_parsed' = <<>>
    /\ current_vocab' = EmptyDict
    /\ vocabulary' = <<>>
    /\ generated_task' = <<>>
    /\ method' = "none"
    /\ level' = None
    /\ context' = None
    /\ prompt' = NoPrompt
    /\ UNCHANGED << call_vars, api_vars >>

NextCalls ==
    \/ InvokeFeedback
    \/ InvokeDailyTask
    \/ InvokeVocabulary
    \/ FeedbackStep
    \/ VocabularyStep
    \/ DailyTaskCallFails
    \/ DailyTaskCallReturns
    \/ MethodEnds

SpecCalls == InitCalls /\ [][NextCalls]_vars

(***************************************************************************)
(* Properties of get_feedback.                                             *)
(***************************************************************************)
NoStartLine == \A i \in DOMAIN lines : Strip(lines[i]) # START_MARKER

NoEndLine == \A i \in DOMAIN lines : Strip(lines[i]) # END_MARKER

\* a line that, trimmed, starts with "- " or "* "
BulletLine(l) ==
    LET s == Strip(l)
    IN  Len(s) >= 2 /\ s[1] \in {"-", "*"} /\ s[2] = " "

\* the reply is: start marker, CORRECTED_TEXT: line, CHANGES_LIST: line,
\* bullet lines, end marker
WellFormedReply ==
    /\ Len(lines) >= 4
    /\ Strip(lines[1]) = START_MARKER
    /\ StartsWith(Strip(lines[2]), CORRECTED_TEXT_PREFIX)
    /\ StartsWith(Strip(lines[3]), CHANGES_LIST_PREFIX)
    /\ \A i \in 4..(Len(lines) - 1) : BulletLine(lines[i])
    /\ Strip(lines[Len(lines)]) = END_MARKER

\* the text after "CORRECTED_TEXT:" on the second line, trimmed
TextAfterPrefix == Strip(SliceFrom(Strip(lines[2]), Len(CORRECTED_TEXT_PREFIX)))

\* the bullet lines without their two-character prefix, trimmed, in order
BulletTexts ==
    [i \in 1..(Len(lines) - 4) |-> Strip(SliceFrom(Strip(lines[i + 3]), 2))]

\* C1 as stated: every well-formed reply yields the text after the
\* corrected-text prefix and the trimmed, prefix-stripped bullets in order.
C1_AsStated ==
    (pc = "done" /\ WellFormedReply) =>
        result = [corrected_text |-> TextAfterPrefix, changes_list |-> BulletTexts]

\* C1 (amended): a well-formed reply whose corrected text is not empty and
\* whose bullets hold "No changes needed." only as the single bullet yields
\* the text after the corrected-text prefix and the trimmed, prefix-stripped
\* bullets in their original order.
C1_WellFormedParse ==
    ( /\ pc = "done"
      /\ WellFormedReply
      /\ TextAfterPrefix # <<>>
      /\ (NO_CHANGES \in Range(BulletTexts) => Len(BulletTexts) = 1) ) =>
        result = [corrected_text |-> TextAfterPrefix, changes_list |-> BulletTexts]

C1_Witness ==
    /\ pc = "done"
    /\ lines = <<START_MARKER, LineCorrected, LineChanges, LineBullet, LineStar,
                 END_MARKER>>
    /\ result = [corrected_text |-> <<"I"," ","a","m"," ","h","a","p","p","y",".">>,
                 changes_list |-> <<<<"F","i","x","e","d"," ","t","e","n","s","e",".">>, <<"A","d","d","e","d"," ","a"," ","c","o","m","m","a",".">>>>]

\* C2 as stated: a reply without a start-marker line or without an
\* end-marker line comes back as corrected_text with exactly one change
\* entry, the parse-failure diagnostic.
C2_AsStated ==
    (pc = "done" /\ (NoStartLine \/ NoEndLine)) =>
        /\ result.corrected_text = raw_response_content
        /\ Len(result.changes_list) = 1
        /\ result.changes_list[1] = PARSE_ERROR_MESSAGE

\* C2 (amended): a reply without a start-marker line or without an
\* end-marker line comes back as corrected_text with exactly two change
\* entries: the parse-failure diagnostic, then the labelled raw excerpt.
C2_MissingMarker ==
    (pc = "done" /\ (NoStartLine \/ NoEndLine)) =>
        /\ result.corrected_text = raw_response_content
        /\ Len(result.changes_list) = 2
        /\ result.changes_list[1] = PARSE_ERROR_MESSAGE
        /\ StartsWith(result.changes_list[2], RAW_OUTPUT_LABEL)

C2_Witness ==
    /\ pc = "done"
    /\ NoEndLine
    /\ lines = <<START_MARKER, LineCorrected, LineChanges, LineBullet>>
    /\ result.corrected_text = raw_response_content
    /\ Len(result.changes_list) = 2

\* the parsed changes reach the collapse of lines 171-174 unreplaced
ParsedChangesKept == pc = "post" /\ ~(~parsing_successful \/ corrected_text = <<>>)

SentinelWithOthers == NO_CHANGES \in Range(changes_list) /\ Len(changes_list) > 1

\* C3 as stated: when the parsed changes hold "No changes needed." and at
\* least one other entry, exactly ["No changes needed."] is returned.
C3_AsStated ==
    [][(ParsedChangesKept /\ SentinelWithOthers) =>
           result'.changes_list = <<NO_CHANGES>>]_vars

\* C3 (amended): when the parsed changes hold "No changes needed." and at
\* least one other entry, the "No changes needed." entries are the ones
\* dropped and the other entries are returned in order; only when every
\* entry is "No changes needed." is exactly ["No changes needed."] returned.
C3_SentinelDropped ==
    [][(ParsedChangesKept /\ SentinelWithOthers) =>
           result'.changes_list =
               IF \E i \in DOMAIN changes_list : changes_list[i] # NO_CHANGES
               THEN SelectSeq(changes_list, LAMBDA c : c # NO_CHANGES)
               ELSE <<NO_CHANGES>>]_vars

C3_Witness ==
    /\ pc = "done"
    /\ lines = <<START_MARKER, LineCorrected, LineChanges, LineSentinel,
                 LineBullet, END_MARKER>>
    /\ result = [corrected_text |-> <<"I"," ","a","m"," ","h","a","p","p","y",".">>,
                 changes_list |-> <<<<"F","i","x","e","d"," ","t","e","n","s","e",".">>>>]

\* the loop ended with parsing_successful false or corrected_text empty
LoopEndedUnparsed == ~parsing_successful \/ corrected_text = <<>>

\* C4 as stated: the fallback fires exactly when the loop ends with
\* parsing_successful false or corrected_text empty; it then returns the
\* raw reply and a single diagnostic entry.
C4_AsStated ==
    [][pc = "post" =>
         /\ LoopEndedUnparsed =>
              /\ result'.corrected_text = raw_response_content
              /\ Len(result'.changes_list) = 1
         /\ ~LoopEndedUnparsed =>
              /\ result'.corrected_text = Strip(corrected_text)
              /\ PARSE_ERROR_MESSAGE \notin Range(result'.changes_list)]_vars

\* C4 (amended): the fallback fires exactly when the loop ends with
\* parsing_successful false or corrected_text empty; it then drops every
\* parsed change entry and returns the whole raw reply as corrected_text
\* with two entries: the diagnostic, and the label followed by the first
\* 150 characters of the raw reply (all of it when shorter) and "...".
C4_Fallback ==
    [][pc = "post" =>
         /\ LoopEndedUnparsed =>
              /\ result'.corrected_text = raw_response_content
              /\ result'.changes_list =
                    << PARSE_ERROR_MESSAGE,
                       RAW_OUTPUT_LABEL
                         \o [i \in 1..(IF Len(raw_response_content) < 150
                                       THEN Len(raw_response_content)
                                       ELSE 150) |-> raw_response_content[i]]
                         \o ELLIPSIS >>
         /\ ~LoopEndedUnparsed =>
              /\ result'.corrected_text = Strip(corrected_text)
              /\ PARSE_ERROR_MESSAGE \notin Range(result'.changes_list)]_vars

C4_Witness ==
    /\ pc = "done"
    /\ lines = <<START_MARKER, LineChanges, LineNumbered, END_MARKER>>
    /\ Len(raw_response_content) > 150
    /\ result.corrected_text = raw_response_content
    /\ Len(result.changes_list[2]) = Len(RAW_OUTPUT_LABEL) + 150 + Len(ELLIPSIS)

\* a str
IsStr(s) == DOMAIN s = 1..Len(s) /\ \A i \in DOMAIN s : s[i] \in STRING

C5_State ==
    /\ pc \in {"call", "loop", "post", "done", "failed"}
    /\ state \in {"INITIAL", "IN_RESPONSE_BLOCK", "IN_CORRECTED_TEXT", "IN_CHANGES_LIST"}
    /\ pc = "loop" => idx \in 1..Len(lines)
    /\ pc = "failed" => failure = "llm_call"
    /\ pc = "done" =>
         /\ failure = "none"
         /\ DOMAIN result = {"corrected_text", "changes_list"}
         /\ IsStr(result.corrected_text)
         /\ DOMAIN result.changes_list = 1..Len(result.changes_list)
         /\ \A i \in DOMAIN result.changes_list : IsStr(result.changes_list[i])

\* C5: whatever the reply, the parse loop advances one line per step until
\* the lines are exhausted or the end marker is met, never raises, and ends
\* with a result made of a corrected_text string and a sequence of strings;
\* get_feedback fails only when the outbound call does.
C5_ParseNeverRaises ==
    /\ []C5_State
    /\ [][pc = "loop" =>
            \/ pc' = "loop" /\ idx' = idx + 1
            \/ pc' = "post"]_vars

C5_Witness ==
    /\ pc = "done"
    /\ lines = <<START_MARKER, LineCorrected, LineChanges, LineEmpty, LineOneChar,
                 END_MARKER>>
    /\ result.changes_list = <<<<"7">>>>

(***************************************************************************)
(* Properties of generate_vocabulary.                                      *)
(***************************************************************************)
\* the scan ended: the method returned, or raised after the call returned
VocabScanned == pc \in {"done", "failed"} /\ failure # "llm_call"

\* s starts with one of the digits 1-9 directly followed by "."
DigitDot(s) == Len(s) >= 2 /\ s[1] \in {"1", "2", "3", "4", "5", "6", "7", "8", "9"} /\ s[2] = "."

\* s starts with one digit followed by ". "
DigitDotSpace(s) == Len(s) >= 3 /\ s[1] \in Digits /\ s[2] = "." /\ s[3] = " "

NonEmptyWord(v) == "word" \in DOMAIN v /\ Len(v["word"]) > 0

\* the lines that open a record
RecordStarts == {i \in DOMAIN lines : DigitDot(Strip(lines[i]))}

\* a Word:, Definition: or Example: line comes before every record start
LeadingFieldLine ==
    \E i \in DOMAIN lines :
        /\ \A j \in RecordStarts : i < j
        /\ \/ StartsWith(Strip(lines[i]), WORD_PREFIX)
           \/ StartsWith(Strip(lines[i]), DEFINITION_PREFIX)
           \/ StartsWith(Strip(lines[i]), EXAMPLE_PREFIX)

\* the number of records the reply holds
RecordsInReply == Cardinality(RecordStarts) + (IF LeadingFieldLine THEN 1 ELSE 0)

\* C6 as stated: no returned entry has the empty string as its word.
C6_AsStated ==
    pc = "done" =>
        \A i \in DOMAIN vocabulary :
            "word" \in DOMAIN vocabulary[i] => vocabulary[i]["word"] # <<>>

\* C6 (amended): every returned sequence holds at least one entry whose
\* word is not empty, and no record is dropped: every record of the reply
\* is returned, an empty word included.
C6_SomeWord ==
    pc = "done" =>
        /\ \E i \in DOMAIN vocabulary : NonEmptyWord(vocabulary[i])
        /\ Len(vocabulary) = RecordsInReply

C6_Witness ==
    /\ pc = "done"
    /\ lines = <<VLineNumberOnly, VLineNumberedWord>>
    /\ vocabulary = << FreshVocab,
                       [word |-> <<"A","p","t">>, definition |-> <<>>, example |-> <<>>] >>

\* C7: the parse fails exactly when the scanned sequence is empty or holds
\* no entry with a non-empty word; a reply without a numbered line and
\* without a Word: line fails.
C7_FailsIffNoWord ==
    VocabScanned =>
        /\ pc = "failed" <=>
              \/ vocabulary_list_parsed = <<>>
              \/ \A i \in DOMAIN vocabulary_list_parsed :
                     ~NonEmptyWord(vocabulary_list_parsed[i])
        /\ ( /\ RecordStarts = {}
             /\ \A i \in DOMAIN lines : ~StartsWith(Strip(lines[i]), WORD_PREFIX) )
           => pc = "failed"
        /\ pc = "done" => vocabulary = vocabulary_list_parsed

C7_Witness ==
    /\ pc = "failed"
    /\ failure = "parse"
    /\ lines = <<VLineHeading>>

\* number of records of a reply of three lines per record
ReplyRecords == Len(lines) \div 3

\* the reply is records 1..N, each a "<n>. Word:" line, a Definition: line
\* and an Example: line
WellFormedVocab ==
    /\ Len(lines) >= 3
    /\ Len(lines) % 3 = 0
    /\ \A r \in 1..ReplyRecords :
        /\ StartsWith(Strip(lines[3 * r - 2]), DecimalOf(r) \o DOT_SPACE \o WORD_PREFIX)
        /\ StartsWith(Strip(lines[3 * r - 1]), DEFINITION_PREFIX)
        /\ StartsWith(Strip(lines[3 * r]), EXAMPLE_PREFIX)

\* the text after the first n characters of the trimmed line, trimmed
TextAfter(l, n) == Strip(SliceFrom(Strip(l), n))

ExpectedEntry(r) ==
    [ word |-> TextAfter(lines[3 * r - 2], Len(DecimalOf(r)) + Len(DOT_SPACE) + Len(WORD_PREFIX)),
      definition |-> TextAfter(lines[3 * r - 1], Len(DEFINITION_PREFIX)),
      example |-> TextAfter(lines[3 * r], Len(EXAMPLE_PREFIX)) ]

ExpectedVocabulary == [r \in 1..ReplyRecords |-> ExpectedEntry(r)]

\* C8 as stated: a reply of N numbered records, N >= 1, yields N entries in
\* input order with the trimmed texts after the three prefixes.
C8_AsStated ==
    (VocabScanned /\ WellFormedVocab) =>
        pc = "done" /\ vocabulary = ExpectedVocabulary

\* C8 (amended): a reply of N numbered records, 1 <= N <= 9, of which at
\* least one has a non-empty word, yields N entries in input order with the
\* trimmed texts after the three prefixes.
C8_NumberedRecords ==
    ( /\ VocabScanned
      /\ WellFormedVocab
      /\ ReplyRecords <= 9
      /\ \E r \in 1..ReplyRecords : ExpectedEntry(r).word # <<>> ) =>
        pc = "done" /\ vocabulary = ExpectedVocabulary

C8_Witness ==
    /\ pc = "done"
    /\ lines = LinesOf(Strip(JoinLines(NumberedReply(3, "padded"))))
    /\ WellFormedVocab
    /\ Len(vocabulary) = 3
    /\ vocabulary[3] = [word |-> <<"K","e","e","n">>, definition |-> <<"F","i","t",".">>, example |-> <<"A","n"," ","a","p","t"," ","p","u","p","i","l",".">>]

\* the step opened a new record: a record with empty definition and
\* example is current, and the record that was current, if any, was flushed
RecordBegun ==
    /\ DOMAIN current_vocab' = Fields
    /\ current_vocab'["definition"] = <<>>
    /\ current_vocab'["example"] = <<>>
    /\ vocabulary_list_parsed' =
           IF DOMAIN current_vocab # {}
           THEN Append(vocabulary_list_parsed, current_vocab)
           ELSE vocabulary_list_parsed

\* C9 as stated: a line opens a record exactly when it starts with a digit
\* followed by ". ", and no other line flushes the current record.
C9_AsStated ==
    [][pc = "loop" =>
         /\ RecordBegun <=> DigitDotSpace(Strip(lines[idx]))
         /\ vocabulary_list_parsed' # vocabulary_list_parsed
                => DigitDotSpace(Strip(lines[idx]))]_vars

\* C9 (amended): a line opens a record exactly when, trimmed, it starts
\* with one of the digits 1-9 directly followed by "." (no space is needed);
\* only such a line flushes the current record during the scan, and what is
\* left is flushed at end of input; an empty current record is not flushed.
C9_RecordBoundary ==
    [][/\ pc = "loop" =>
            /\ RecordBegun <=> DigitDot(Strip(lines[idx]))
            /\ vocabulary_list_parsed' # vocabulary_list_parsed
                   => /\ DigitDot(Strip(lines[idx]))
                      /\ vocabulary_list_parsed' =
                             Append(vocabulary_list_parsed, current_vocab)
       /\ pc = "post" =>
            vocabulary_list_parsed' =
                IF DOMAIN current_vocab # {}
                THEN Append(vocabulary_list_parsed, current_vocab)
                ELSE vocabulary_list_parsed]_vars

C9_Witness ==
    /\ pc = "done"
    /\ lines = <<VLineNumberedWord, VLineDefinition, VLineDecimal>>
    /\ vocabulary = << [word |-> <<"A","p","t">>, definition |-> <<"F","i","t",".">>, example |-> <<>>],
                       FreshVocab >>

(***************************************************************************)
(* Properties of the prompts.                                              *)
(***************************************************************************)
\* the level is absent, or is none of B1, B2, C1 in any letter case
Unrecognized(lv) ==
    \/ ~lv.given
    \/ Upper(lv.text) \notin {<<"B","1">>, <<"B","2">>, <<"C","1">>}

\* the prompts the method builds for level "C1" and the same context
PromptsForC1 ==
    IF method = "get_feedback"
    THEN {FeedbackPrompt(prompt.text, Some(<<"C","1">>), context)}
    ELSE IF method = "generate_daily_task"
    THEN {DailyTaskPrompt(Some(<<"C","1">>), context, t, e) :
              t \in 1..NumTaskTypes, e \in 1..NumExamples(<<"C","1">>)}
    ELSE {VocabularyPrompt(Some(<<"C","1">>), context)}

\* C10 as stated: in all three methods an absent or unrecognized level
\* gives the prompt of level C1.
C10_AsStated ==
    (pc = "built" /\ Unrecognized(level)) => prompt \in PromptsForC1

\* C10 (amended): with an absent or unrecognized level, generate_daily_task
\* builds the prompt of level C1; generate_vocabulary builds the prompt of
\* level B2; get_feedback keeps the general system message of no level,
\* with the focus "Maintain a general C1-level focus." when a level was
\* given and with no focus when none was.
C10_LevelDefault ==
    (pc = "built" /\ Unrecognized(level)) =>
        /\ method = "generate_daily_task" =>
              /\ prompt.level_key = <<"C","1">>
              /\ prompt \in PromptsForC1
        /\ method = "generate_vocabulary" =>
              /\ prompt.level_key = <<"B","2">>
              /\ prompt = VocabularyPrompt(Some(<<"B","2">>), context)
        /\ method = "get_feedback" =>
              /\ prompt.system_message = "You are an English writing assistant."
              /\ prompt.level_focus =
                     IF level.given /\ level.text # <<>>
                     THEN "Maintain a general C1-level focus."
                     ELSE ""

C10_Witness ==
    /\ pc = "built"
    /\ method = "generate_daily_task"
    /\ level = Some(<<"A","2">>)
    /\ prompt.level_key = <<"C","1">>
    /\ prompt.selected_example = <<<<"C","1">>, 7>>


(***************************************************************************)
(* Properties of the feedback endpoint.                                    *)
(***************************************************************************)
\* the request in hand was POSTed to /api/v1/feedback and is answered
FeedbackAnswered == pc = "responded" /\ endpoint = "feedback"

TextMissing == ~request_body.text.given

\* text is present and holds nothing but whitespace
TextBlank ==
    /\ request_body.text.given
    /\ \A i \in DOMAIN request_body.text.text :
           request_body.text.text[i] \in Whitespace

NotInitialized == ai_assistant_instance = "None"

\* no method of the assistant was entered for the request in hand
NoAssistantCall == method = "none" /\ raw_response_content = <<>>

FeedbackBody ==
    [kind |-> "feedback",
     corrected_text |-> result.corrected_text,
     changes_list |-> result.changes_list]

\* C11 as stated: 400 whenever text is missing or blank, 503 whenever the
\* assistant is not initialized, 500 whenever generation fails, 200 with the
\* result otherwise; no call when not initialized or when text is blank.
C11_AsStated ==
    FeedbackAnswered =>
        /\ (TextMissing \/ TextBlank) => status_code = 400
        /\ NotInitialized => status_code = 503
        /\ failure # "none" => status_code = 500
        /\ (~TextMissing /\ ~TextBlank /\ ~NotInitialized /\ failure = "none")
               => status_code = 200 /\ response_body = FeedbackBody
        /\ (NotInitialized \/ TextBlank) => NoAssistantCall

\* C11 (amended): a body without text is answered 422 before the handler
\* runs; otherwise 503 when the assistant is not initialized, whatever the
\* text; otherwise 400 when text is blank; otherwise 500 when get_feedback
\* raises and 200 with its corrected_text and changes_list when it returns.
\* In the 422, 503 and 400 cases no method of the assistant is called and no
\* outbound call is made.
C11_FeedbackStatus ==
    /\ [](FeedbackAnswered =>
            /\ status_code =
                 IF TextMissing THEN 422
                 ELSE IF NotInitialized THEN 503
                 ELSE IF TextBlank THEN 400
                 ELSE IF failure # "none" THEN 500
                 ELSE 200
            /\ status_code = 200 => response_body = FeedbackBody
            /\ status_code \in {400, 422, 503} => NoAssistantCall)
    /\ [][(status_code' \in {400, 422, 503} /\ status_code = 0) =>
              /\ invocations' = invocations
              /\ llm_calls' = llm_calls]_vars

C11_Witness ==
    /\ FeedbackAnswered
    /\ NotInitialized
    /\ TextBlank
    /\ status_code = 503
    /\ invocations = 0


(***************************************************************************)
(* Properties of the outbound calls.                                       *)
(***************************************************************************)
\* the running method has not made its outbound call yet
BeforeCall == pc \in {"call", "task_call"}

\* C12: every invocation of get_feedback, generate_daily_task or
\* generate_vocabulary makes exactly one outbound call: none is pending
\* once the call was made, whatever its outcome; a call that fails ends the
\* invocation with RuntimeError and is not made again, so between
\* invocations the outbound calls are as many as the invocations.
C12_OneCallPerInvocation ==
    /\ [](/\ BeforeCall => llm_calls + 1 = invocations
          /\ ~BeforeCall => llm_calls = invocations)
    /\ [][/\ llm_calls' # llm_calls =>
                /\ BeforeCall
                /\ llm_calls' = llm_calls + 1
                /\ pc' \in {"failed", "loop", "done"}
          /\ (BeforeCall /\ failure' # "none") =>
                /\ pc' = "failed"
                /\ failure' = "llm_call"
          /\ pc = "failed" =>
                /\ pc' = "idle"
                /\ llm_calls' = llm_calls]_vars

C12_Witness ==
    /\ pc = "failed"
    /\ failure = "llm_call"
    /\ method = "generate_vocabulary"
    /\ invocations = 2
    /\ llm_calls = 2


(***************************************************************************)
(* Properties of the feedback parse, line by line.                         *)
(***************************************************************************)
\* the for loop is at a line
AtLine == pc = "loop" /\ idx \in DOMAIN lines

\* C13 as stated: an empty (whitespace-only) line is skipped in every parser
\* state: processing it leaves state, corrected_text and changes unchanged.
C13_AsStated ==
    [][(AtLine /\ \A i \in DOMAIN lines[idx] : lines[idx][i] \in Whitespace) =>
           /\ state' = state
           /\ corrected_text' = corrected_text
           /\ changes_list' = changes_list]_vars


\* C14: in any parser state a line equal to the start marker moves the
\* parser to IN_RESPONSE_BLOCK and does nothing else: corrected_text, changes
\* and parsing_successful are as before the line, also when text or changes
\* were captured before it.
C14_StartMarkerFrame ==
    [][(AtLine /\ lines[idx] = START_MARKER) =>
           /\ state' = "IN_RESPONSE_BLOCK"
           /\ corrected_text' = corrected_text
           /\ changes_list' = changes_list
           /\ parsing_successful' = parsing_successful
           /\ pc' \in {"loop", "post"}]_vars

C14_Witness ==
    /\ pc = "loop"
    /\ idx = 6
    /\ lines[5] = START_MARKER
    /\ state = "IN_RESPONSE_BLOCK"
    /\ corrected_text = <<"I"," ","a","m"," ","h","a","p","p","y",".">>
    /\ changes_list = <<<<"F","i","x","e","d"," ","t","e","n","s","e",".">>>>

\* the lines equal to the end marker
EndLines == {i \in DOMAIN lines : lines[i] = END_MARKER}

\* the loop is over
LoopOver == pc \in {"post", "done"}

\* C15: the first end-marker line is terminal: the loop ends at it, so no
\* line after it is processed and the parse is over with the loop at the
\* first end marker; at that line parsing_successful becomes true exactly
\* when the state is IN_CHANGES_LIST or IN_CORRECTED_TEXT or corrected_text
\* is not empty, and nothing else changes; a result without fallback is the
\* text and changes captured up to that line.
C15_EndMarkerTerminal ==
    /\ []((LoopOver /\ EndLines # {}) =>
            /\ idx \in EndLines
            /\ \A j \in EndLines : idx <= j)
    /\ [][(AtLine /\ lines[idx] = END_MARKER) =>
              /\ pc' = "post"
              /\ parsing_successful' =
                   (state \in {"IN_CHANGES_LIST", "IN_CORRECTED_TEXT"}
                      \/ corrected_text # <<>>)
              /\ UNCHANGED << idx, state, corrected_text, changes_list >>]_vars
    /\ [][(pc = "post" /\ parsing_successful /\ corrected_text # <<>>) =>
              /\ pc' = "done"
              /\ result'.corrected_text = Strip(corrected_text)
              /\ \A c \in Range(result'.changes_list) : c \in Range(changes_list)]_vars

C15_Witness ==
    /\ pc = "done"
    /\ Len(lines) = 5
    /\ lines[4] = END_MARKER
    /\ lines[5] = LineBullet
    /\ idx = 4
    /\ parsing_successful
    /\ result = [corrected_text |-> <<"I"," ","a","m"," ","h","a","p","p","y",".">>, changes_list |-> <<>>]

\* C17: during the parse loop the state never returns to INITIAL once left;
\* a line seen in INITIAL other than the start marker changes nothing; from
\* IN_CHANGES_LIST the state changes only to IN_RESPONSE_BLOCK, on a start
\* marker; a "CORRECTED_TEXT:" line seen in IN_CHANGES_LIST is recorded as a
\* change entry and leaves corrected_text alone; a line writes corrected_text
\* only in IN_RESPONSE_BLOCK or IN_CORRECTED_TEXT.
C17_StateOrder ==
    [][/\ state # "INITIAL" => state' # "INITIAL"
       /\ AtLine =>
            /\ (state = "INITIAL" /\ Strip(lines[idx]) # START_MARKER) =>
                  /\ state' = state
                  /\ corrected_text' = corrected_text
                  /\ changes_list' = changes_list
                  /\ parsing_successful' = parsing_successful
            /\ (state = "IN_CHANGES_LIST" /\ state' # state) =>
                  /\ state' = "IN_RESPONSE_BLOCK"
                  /\ Strip(lines[idx]) = START_MARKER
            /\ (state = "IN_CHANGES_LIST"
                  /\ StartsWith(Strip(lines[idx]), CORRECTED_TEXT_PREFIX)) =>
                  /\ corrected_text' = corrected_text
                  /\ changes_list' = Append(changes_list, Strip(lines[idx]))
            /\ corrected_text' # corrected_text =>
                  state \in {"IN_RESPONSE_BLOCK", "IN_CORRECTED_TEXT"}]_vars

C17_Witness ==
    /\ pc = "loop"
    /\ state = "IN_CHANGES_LIST"
    /\ lines[idx - 1] = LineCorrected
    /\ corrected_text = <<"I"," ","a","m"," ","h","a","p","p","y",".">>
    /\ changes_list = <<<<"F","i","x","e","d"," ","t","e","n","s","e",".">>, LineCorrected>>

(***************************************************************************)
(* Properties of the vocabulary entries.                                   *)
(***************************************************************************)
\* C16 as stated: every entry of every returned sequence has the three
\* fields word, definition and example.
C16_AsStated ==
    pc = "done" =>
        \A i \in DOMAIN vocabulary : DOMAIN vocabulary[i] = {"word", "definition", "example"}

====
